---- MODULE Spec2Model ----
(***************************************************************************)
(* A model of src/js/strie.js: the BidiTrieContainer (one byte buffer      *)
(* holding the haystack window, five header slots, the trie cells and the  *)
(* character data), its trie handles (STrieRef) and the string search      *)
(* primitives.                                                             *)
(*                                                                         *)
(* The buffer is modelled byte by byte (buf8); buf32 is the little-endian  *)
(* view of the same bytes, as the two typed arrays of the source share one *)
(* ArrayBuffer.  The page size and the size of the haystack window are     *)
(* scaled down (PageWords, HaystackWords); every other constant is the     *)
(* source's.                                                               *)
(***************************************************************************)
EXTENDS Integers, Sequences, FiniteSets, TLC

(***************************************************************************)
(* Bounds of the model                                                     *)
(***************************************************************************)
\* size of one page, in 32-bit words (the source's page is 32768 words)
PageWords == 8
\* size of the haystack window, in 32-bit words (the source's is 512 words)
HaystackWords == 3
\* longest string handed to storeString
MaxLen == 3
\* most bytes of character data stored in the one-trie runs
MaxChars == 5
\* most bytes of character data stored in the runs that write every extra
MaxCharsX == 4
\* most bytes of character data stored between two resets in the runs
\* that reset, repack or reload the container
MaxCharsL == 2
\* most bytes of character data stored in the runs with two tries
MaxCharsP == 3
\* most tries created between two resets in those runs
MaxRoots == 2
\* most calls of reset, optimize, serialize, unserialize and the constructor
\* in one of those runs
MaxLifeOps == 3
\* largest byteLength given to the constructor, in pages
MaxNewPages == 6
\* longest haystack written to the window
MaxHay == 4
\* most bytes of needles stored in the runs of the search primitives
MaxNeedle == 2

\* the bytes patterns and haystacks are made of ("a", "b")
Alphabet == {97, 98}

(***************************************************************************)
(* Constants of strie.js                                                   *)
(***************************************************************************)
PAGE_SIZE == 4 * PageWords
HAYSTACK_START == 0
HAYSTACK_SIZE == 4 * HaystackWords
HAYSTACK_SIZE_SLOT == HAYSTACK_SIZE \div 4
TRIE0_SLOT == HAYSTACK_SIZE_SLOT + 1
TRIE1_SLOT == HAYSTACK_SIZE_SLOT + 2
CHAR0_SLOT == HAYSTACK_SIZE_SLOT + 3
CHAR1_SLOT == HAYSTACK_SIZE_SLOT + 4
TRIE0_START == (HAYSTACK_SIZE_SLOT + 5) * 4

CELL_BYTE_LENGTH == 12
MIN_FREE_CELL_BYTE_LENGTH == CELL_BYTE_LENGTH * 8

CELL_AND == 0
CELL_OR == 1
SEGMENT_INFO == 2
BCELL_NEXT_AND == 0
BCELL_ALT_AND == 1
BCELL_EXTRA == 2
BCELL_EXTRA_MAX == 16777215

\* what shrinkBuf leaves after the character data
SHRINK_SLACK == 256
\* reading a typed array outside its bounds gives undefined
Undef == -1

(***************************************************************************)
(* The buffer: buf8 and buf32 views                                        *)
(***************************************************************************)
Rd8(b, a) == IF a >= 0 /\ a < Len(b) THEN b[a + 1] ELSE Undef

Wr8(b, a, v) == IF a >= 0 /\ a < Len(b) THEN [b EXCEPT ![a + 1] = v % 256] ELSE b

\* buf32[w], for the words that hold a link, an offset or an extra
Rd32(b, w) ==
    IF w >= 0 /\ 4 * w + 3 < Len(b)
    THEN b[4 * w + 1] + 256 * b[4 * w + 2] + 65536 * b[4 * w + 3]
            + 16777216 * b[4 * w + 4]
    ELSE Undef

\* buf32[w] >>> 24
Hi8(b, w) == Rd8(b, 4 * w + 3)

\* buf32[w] & 0x00FFFFFF
Lo24(b, w) ==
    IF w >= 0 /\ 4 * w + 3 < Len(b)
    THEN b[4 * w + 1] + 256 * b[4 * w + 2] + 65536 * b[4 * w + 3]
    ELSE Undef

\* buf32[w] = (hi << 24) | lo, kept to 32 bits
Wr32s(b, w, hi, lo) ==
    IF w >= 0 /\ 4 * w + 3 < Len(b)
    THEN [b EXCEPT ![4 * w + 1] = lo % 256,
                   ![4 * w + 2] = (lo \div 256) % 256,
                   ![4 * w + 3] = (lo \div 65536) % 256,
                   ![4 * w + 4] = hi % 256]
    ELSE b

\* buf32[w] = v
Wr32(b, w, v) == Wr32s(b, w, v \div 16777216, v % 16777216)

\* toSegmentInfo with the start of the segment left out of the offset
toSegmentInfo_NoStart(aL, l, r) == [hi |-> (r - l) % 256, lo |-> aL % 16777216]

\* a 32-bit word as the pair (bits 24..31, bits 0..23)
toSegmentInfo(aL, l, r) == [hi |-> (r - l) % 256, lo |-> (aL + l) % 16777216]

SegWord(hi, lo) == [hi |-> hi % 256, lo |-> lo % 16777216]

roundToPageSize(v) == ((v + PAGE_SIZE - 1) \div PAGE_SIZE) * PAGE_SIZE

Max(x, y) == IF x >= y THEN x ELSE y

Trie0(b) == Rd32(b, TRIE0_SLOT)
Trie1(b) == Rd32(b, TRIE1_SLOT)
Char0(b) == Rd32(b, CHAR0_SLOT)
Char1(b) == Rd32(b, CHAR1_SLOT)

(***************************************************************************)
(* constructor                                                             *)
(***************************************************************************)
\* a constructor that puts char0 at the middle of the buffer it allocates
NewContainer_HalfLen(byteLength) ==
    Wr32(Wr32(Wr32(Wr32([k \in 1..Max(roundToPageSize(byteLength), PAGE_SIZE * 4)
                           |-> 0],
                        TRIE0_SLOT, TRIE0_START),
                   TRIE1_SLOT, TRIE0_START),
              CHAR0_SLOT, Max(roundToPageSize(byteLength), PAGE_SIZE * 4) \div 2),
         CHAR1_SLOT, Max(roundToPageSize(byteLength), PAGE_SIZE * 4) \div 2)

\* new BidiTrieContainer({ byteLength }) ; details.char0 is absent
NewContainer(byteLength) ==
    Wr32(Wr32(Wr32(Wr32([k \in 1..Max(roundToPageSize(byteLength), PAGE_SIZE * 4)
                           |-> 0],
                        TRIE0_SLOT, TRIE0_START),
                   TRIE1_SLOT, TRIE0_START),
              CHAR0_SLOT, (PAGE_SIZE * 4) \div 2),
         CHAR1_SLOT, (PAGE_SIZE * 4) \div 2)

(***************************************************************************)
(* Private methods: resizeBuf, growBuf, shrinkBuf, allocateCell, addCell   *)
(***************************************************************************)
\* resizeBuf that copies the trie region only
resizeTo_NoCharCopy(b, bufLen, char0, oldChar0, charDataLen, trie1) ==
    Wr32(Wr32([k \in 1..bufLen |->
                 IF k - 1 < trie1 /\ k <= Len(b) THEN b[k] ELSE 0],
              CHAR0_SLOT, char0),
         CHAR1_SLOT, char0 + charDataLen)

\* the copies of resizeBuf, bufLen being rounded and oldChar0, charDataLen,
\* trie1 read before anything is written
resizeTo(b, bufLen, char0, oldChar0, charDataLen, trie1) ==
    IF bufLen = Len(b) /\ char0 = oldChar0 THEN b
    ELSE IF bufLen # Len(b)
    THEN \* a new buffer: the trie region, then the character region
         Wr32(Wr32([k \in 1..bufLen |->
                      IF k - 1 >= char0 /\ k - 1 < char0 + charDataLen
                      THEN b[oldChar0 + (k - 1 - char0) + 1]
                      ELSE IF k - 1 < trie1 THEN b[k] ELSE 0],
                   CHAR0_SLOT, char0),
              CHAR1_SLOT, char0 + charDataLen)
    ELSE \* same buffer: copyWithin(char0, oldChar0, oldChar1)
         Wr32(Wr32([k \in 1..Len(b) |->
                      IF /\ k - 1 >= char0
                         /\ k - 1 < char0 + charDataLen
                         /\ k - 1 < Len(b)
                      THEN b[oldChar0 + (k - 1 - char0) + 1]
                      ELSE b[k]],
                   CHAR0_SLOT, char0),
              CHAR1_SLOT, char0 + charDataLen)

resizeBuf(b, bufLen0, char0) ==
    resizeTo(b, roundToPageSize(bufLen0), char0,
             Char0(b), Char1(b) - Char0(b), Trie1(b))

\* growBuf that leaves the character region where it is
growBuf_KeepChar0(b, trieGrow, charGrow) ==
    resizeBuf(b, Max(roundToPageSize(Char1(b) + charGrow), Len(b)), Char0(b))

\* growBuf once the new char0 is known
growBufTo(b, char0, charGrow) ==
    resizeBuf(b,
              Max(roundToPageSize(char0 + Char1(b) - Char0(b) + charGrow), Len(b)),
              char0)

growBuf(b, trieGrow, charGrow) ==
    growBufTo(b, Max(roundToPageSize(Trie1(b) + trieGrow), Char0(b)), charGrow)

\* shrinkBuf that leaves no room between the cells and the characters
shrinkBuf_NoRoom(b) ==
    resizeBuf(b, Trie1(b) + Char1(b) - Char0(b) + SHRINK_SLACK, Trie1(b))

shrinkBuf(b) ==
    resizeBuf(b,
              Trie1(b) + MIN_FREE_CELL_BYTE_LENGTH + Char1(b) - Char0(b)
                  + SHRINK_SLACK,
              Trie1(b) + MIN_FREE_CELL_BYTE_LENGTH)

\* returns the buffer and the word index of the new, zeroed cell
allocateCell(b) ==
    LET icell == Trie1(b) \div 4
    IN  [buf |-> Wr32(Wr32(Wr32(Wr32(b, TRIE1_SLOT, Trie1(b) + CELL_BYTE_LENGTH),
                                icell + 0, 0), icell + 1, 0), icell + 2, 0),
         icell |-> icell]

\* the three writes of addCell to the cell a that allocateCell returned
addCellAt(a, iand, ior, v) ==
    [buf |-> Wr32s(Wr32(Wr32(a.buf, a.icell + CELL_AND, iand),
                        a.icell + CELL_OR, ior),
                   a.icell + SEGMENT_INFO, v.hi, v.lo),
     icell |-> a.icell]

\* v is a segment word (hi, lo)
addCell(b, iand, ior, v) == addCellAt(allocateCell(b), iand, ior, v)

\* buf32[w] = icell, for the cell of c = [buf, icell] just made
linkCell(c, w) == [buf |-> Wr32(c.buf, w, c.icell), icell |-> c.icell]

\* buf32[w] === v, for a v below 2^24
Is32(b, w, v) == Hi8(b, w) = 0 /\ Lo24(b, w) = v

\* buf32[w] <= BCELL_EXTRA_MAX: the cell of word w is a boundary cell
IsBoundaryWord(b, w) == Hi8(b, w) = 0

(***************************************************************************)
(* addLeft                                                                 *)
(***************************************************************************)
\* the loop "find 1st mismatch in rest of segment" of addLeft
RECURSIVE addLeftScan(_, _, _, _, _)
addLeftScan(b, br, ar, bL, aL) ==
    IF br = bL THEN [br |-> br, ar |-> ar]
    ELSE IF ar = 0 THEN [br |-> br, ar |-> ar]
    ELSE IF Rd8(b, br - 1) # Rd8(b, aL + ar - 1) THEN [br |-> br, ar |-> ar]
    ELSE addLeftScan(b, br - 1, ar - 1, bL, aL)

\* buf32[w] = addCell(iboundary, 0, toSegmentInfo(aL0, 0, ar)); return iboundary
\* for the boundary cell bo = [buf, icell] just allocated
addLeftSegment(bo, w, aL0, ar) ==
    [buf |-> linkCell(addCell(bo.buf, bo.icell, 0, toSegmentInfo(aL0, 0, ar)), w).buf,
     ret |-> bo.icell]

\* iboundary = allocateCell(), then the above
addLeftRemainder(b, w, aL0, ar) == addLeftSegment(allocateCell(b), w, aL0, ar)

\* a boundary cell that is given its successor but is not linked from icell
addLeftBoundary_NoRelink(bo, icell, inext) ==
    [buf |-> Wr32(bo.buf, bo.icell + CELL_AND, inext), ret |-> bo.icell]

\* "need boundary cell": the boundary cell bo just allocated is put
\* between icell and inext
addLeftBoundary(bo, icell, inext) ==
    [buf |-> Wr32(Wr32(bo.buf, bo.icell + CELL_AND, inext),
                  icell + CELL_AND, bo.icell),
     ret |-> bo.icell]

\* the second addCell of the branch "we should never reach here"
addLeftTodoRest(c1, aL0, ar) ==
    linkCell(addCell(c1.buf, 0, 0, toSegmentInfo(aL0, 0, ar)),
             c1.icell + CELL_AND).buf

\* the branch "we should never reach here": boundary cell + needle remainder
addLeftTodo(b, icell, aL0, ar) ==
    addLeftTodoRest(linkCell(addCell(b, 0, 0, SegWord(0, 0)), icell + CELL_AND),
                    aL0, ar)

\* "some segment characters matched", after the split cell ce was added
addLeftSplit(ce, icell, aL0, ar) ==
    IF ar = 0
    THEN addLeftBoundary(allocateCell(ce.buf), icell, ce.icell)
    ELSE addLeftRemainder(Wr32(ce.buf, icell + CELL_AND, ce.icell),
                          ce.icell + CELL_OR, aL0, ar)

\* the loop "find a matching cell: move down" of addLeft
RECURSIVE addLeftWalk(_, _, _, _, _)

\* the same without the test "boundary cell already present"
addLeftMatched_NewBoundary(b, icell, inext, ar, aL0, char0) ==
    IF ar = 0 THEN addLeftBoundary(allocateCell(b), icell, inext)
    ELSE IF inext # 0 THEN addLeftWalk(b, inext, ar, aL0, char0)
    ELSE addLeftWalk(addLeftTodo(b, icell, aL0, ar), icell, ar, aL0, char0)

\* "all segment characters matched", inext being the AND of icell
addLeftMatched(b, icell, inext, ar, aL0, char0) ==
    IF ar = 0
    THEN IF IsBoundaryWord(b, inext + BCELL_EXTRA)
         THEN [buf |-> b, ret |-> inext]
         ELSE addLeftBoundary(allocateCell(b), icell, inext)
    ELSE IF inext # 0 THEN addLeftWalk(b, inext, ar, aL0, char0)
    \* after the branch "we should never reach here" the loop goes on
    \* from the same cell
    ELSE addLeftWalk(addLeftTodo(b, icell, aL0, ar), icell, ar, aL0, char0)

\* after the first mismatch sc = [br, ar] was found
addLeftScanned(b, icell, aL0, char0, bL, bR, sc) ==
    IF sc.br = bL
    THEN addLeftMatched(b, icell, Rd32(b, icell + CELL_AND), sc.ar, aL0, char0)
    ELSE \* split current cell
         addLeftSplit(addCell(Wr32s(b, icell + SEGMENT_INFO,
                                    bR - sc.br, sc.br - char0),
                              Rd32(b, icell + CELL_AND), 0,
                              SegWord(sc.br - bL, bL - char0)),
                      icell, aL0, sc.ar)

\* a segment cell [bL, bR) met by the walk
addLeftCell(b, icell, ar, aL0, char0, bL, bR) ==
    IF Rd8(b, bR - 1) # Rd8(b, aL0 + char0 + ar - 1)
    THEN \* first character is no match: move to next descendant
         IF Rd32(b, icell + CELL_OR) = 0
         THEN addLeftRemainder(b, icell + CELL_OR, aL0, ar)
         ELSE addLeftWalk(b, Rd32(b, icell + CELL_OR), ar, aL0, char0)
    ELSE addLeftScanned(b, icell, aL0, char0, bL, bR,
                        addLeftScan(b, bR - 1, ar - 1, bL, aL0 + char0))

addLeftWalk(b, icell, ar, aL0, char0) ==
    IF Hi8(b, icell + SEGMENT_INFO) = 0
    THEN \* skip boundary cells
         IF Rd32(b, icell + CELL_AND) # 0
         THEN addLeftWalk(b, Rd32(b, icell + CELL_AND), ar, aL0, char0)
         ELSE addLeftRemainder(b, icell + CELL_AND, aL0, ar)
    ELSE addLeftCell(b, icell, ar, aL0, char0,
                     char0 + Lo24(b, icell + SEGMENT_INFO),
                     char0 + Lo24(b, icell + SEGMENT_INFO)
                           + Hi8(b, icell + SEGMENT_INFO))

\* a first node of a left trie that is not given its boundary cell
addLeftFirst_NoBoundary(bo, icell) == [buf |-> bo.buf, ret |-> bo.icell]

\* "special case: first node in trie" of addLeft, bo being the boundary
\* cell just allocated
addLeftFirst(bo, icell) ==
    [buf |-> Wr32(bo.buf, icell + CELL_AND, bo.icell), ret |-> bo.icell]

\* addLeft from the root cell c = [buf, icell] of the left trie
addLeftIn(c, aL0, pivot) ==
    IF Is32(c.buf, c.icell + SEGMENT_INFO, 0)
    THEN addLeftFirst(allocateCell(Wr32s(c.buf, c.icell + SEGMENT_INFO,
                                         toSegmentInfo(aL0, 0, pivot).hi,
                                         toSegmentInfo(aL0, 0, pivot).lo)),
                      c.icell)
    ELSE addLeftWalk(c.buf, c.icell, pivot, aL0, Char0(c.buf))

\* addLeft from its boundary cell
addLeftFrom(b, iboundary, aL0, pivot) ==
    \* shortest match with no extra conditions will always win
    IF Is32(b, iboundary + BCELL_EXTRA, 1) THEN [buf |-> b, ret |-> iboundary]
    \* bail out if no left segment
    ELSE IF pivot = 0 THEN [buf |-> b, ret |-> iboundary]
    \* fetch root cell of left segment
    ELSE IF Rd32(b, iboundary + BCELL_ALT_AND) = 0
    THEN addLeftIn(linkCell(allocateCell(b), iboundary + BCELL_ALT_AND),
                   aL0, pivot)
    ELSE addLeftIn([buf |-> b, icell |-> Rd32(b, iboundary + BCELL_ALT_AND)],
                   aL0, pivot)

\* "add boundary cell if none exist": bo is the cell just allocated
addLeftNew(bo, icell, inext, aL0, pivot) ==
    IF pivot = 0
    THEN [buf |-> Wr32(Wr32(bo.buf, icell + CELL_AND, bo.icell),
                       bo.icell + BCELL_NEXT_AND, inext),
          ret |-> bo.icell]
    ELSE addLeftFrom(Wr32(Wr32(bo.buf, icell + CELL_AND, bo.icell),
                          bo.icell + BCELL_NEXT_AND, inext),
                     bo.icell, aL0, pivot)

addLeft(b, icell, aL0, pivot) ==
    IF \/ Rd32(b, icell + CELL_AND) = 0
       \/ ~IsBoundaryWord(b, Rd32(b, icell + CELL_AND) + SEGMENT_INFO)
    THEN addLeftNew(allocateCell(b), icell, Rd32(b, icell + CELL_AND), aL0, pivot)
    ELSE addLeftFrom(b, Rd32(b, icell + CELL_AND), aL0, pivot)

(***************************************************************************)
(* add                                                                     *)
(***************************************************************************)
\* the loop "find 1st mismatch in rest of segment" of add
RECURSIVE addScan(_, _, _, _, _, _, _)
addScan(b, bi, al, bR, aR, bl, aL) ==
    IF bi = bR THEN [bi |-> bi, al |-> al]
    ELSE IF al = aR THEN [bi |-> bi, al |-> al]
    ELSE IF Rd8(b, bl + bi) # Rd8(b, aL + al) THEN [bi |-> bi, al |-> al]
    ELSE addScan(b, bi + 1, al + 1, bR, aR, bl, aL)

\* return this.addLeft(icell, aL0, pivot) for the cell of c just added
addLeftOf(c, aL0, pivot) == addLeft(c.buf, c.icell, aL0, pivot)

\* buf32[w] = addCell(0, 0, toSegmentInfo(aL0, al, aR)), then addLeft from it
addRemainder(b, w, al, aL0, aR, pivot) ==
    addLeftOf(linkCell(addCell(b, 0, 0, toSegmentInfo(aL0, al, aR)), w),
              aL0, pivot)

\* "some characters matched", after the split cell ce was added and linked
addSplit(ce, icell, al, aL0, aR, pivot) ==
    IF al = aR THEN addLeft(ce.buf, icell, aL0, pivot)
    ELSE addRemainder(ce.buf, ce.icell + CELL_OR, al, aL0, aR, pivot)

\* the loop "find a matching cell: move down" of add
RECURSIVE addWalk(_, _, _, _, _, _, _)

\* "needle remainder: yes", inext being the AND of the matched cell
addNext(b, inext, al, aL0, aR, pivot, char0) ==
    IF Rd32(b, inext + CELL_AND) # 0
    THEN addWalk(b, inext, al, aL0, aR, pivot, char0)
    ELSE addRemainder(b, inext + CELL_AND, al, aL0, aR, pivot)

\* after the first mismatch sc = [bi, al] was found
addScanned(b, icell, aL0, aR, pivot, char0, bR, bl, sc) ==
    IF sc.bi = bR
    THEN \* all segment characters matched
         IF sc.al = aR THEN addLeft(b, icell, aL0, pivot)
         ELSE addNext(b, Rd32(b, icell + CELL_AND), sc.al, aL0, aR, pivot, char0)
    ELSE \* split current segment
         addSplit(linkCell(addCell(Wr32s(b, icell + SEGMENT_INFO,
                                         sc.bi, bl - char0),
                                   Rd32(b, icell + CELL_AND), 0,
                                   SegWord(bR - sc.bi, bl - char0 + sc.bi)),
                           icell + CELL_AND),
                  icell, sc.al, aL0, aR, pivot)

\* a segment cell of length bR at bl met by the walk
addCellMet(b, icell, al, aL0, aR, pivot, char0, bR, bl) ==
    IF Rd8(b, bl) # Rd8(b, char0 + aL0 + al)
    THEN \* first character is no match: move to next descendant
         IF Rd32(b, icell + CELL_OR) = 0
         THEN addRemainder(b, icell + CELL_OR, al, aL0, aR, pivot)
         ELSE addWalk(b, Rd32(b, icell + CELL_OR), al, aL0, aR, pivot, char0)
    ELSE addScanned(b, icell, aL0, aR, pivot, char0, bR, bl,
                    IF bR # 1
                    THEN addScan(b, 1, al + 1, bR, aR, bl, char0 + aL0)
                    ELSE [bi |-> 1, al |-> al + 1])

addWalk(b, icell, al, aL0, aR, pivot, char0) ==
    IF Hi8(b, icell + SEGMENT_INFO) = 0
    THEN \* skip boundary cells
         addWalk(b, Rd32(b, icell + BCELL_NEXT_AND), al, aL0, aR, pivot, char0)
    ELSE addCellMet(b, icell, al, aL0, aR, pivot, char0,
                    Hi8(b, icell + SEGMENT_INFO),
                    char0 + Lo24(b, icell + SEGMENT_INFO))

\* add once the buffer has room for the cells
addIn(b, iroot, aL0, aR, pivot) ==
    IF Is32(b, iroot + SEGMENT_INFO, 0)
    THEN \* special case: first node in trie
         addLeft(Wr32s(b, iroot + SEGMENT_INFO,
                       toSegmentInfo(aL0, pivot, aR).hi,
                       toSegmentInfo(aL0, pivot, aR).lo),
                 iroot, aL0, pivot)
    ELSE addWalk(b, iroot, pivot, aL0, aR, pivot, Char0(b))

\* BidiTrieContainer.add: returns the buffer and the boundary cell
add(b0, iroot, aL0, n, pivot) ==
    IF n = 0 THEN [buf |-> b0, ret |-> 0]
    ELSE addIn(IF Char0(b0) - Trie1(b0) < MIN_FREE_CELL_BYTE_LENGTH
               THEN growBuf(b0, MIN_FREE_CELL_BYTE_LENGTH, 0)
               ELSE b0,
               iroot, aL0, n, pivot)

(***************************************************************************)
(* createOne, storeString, reset, optimize                                 *)
(***************************************************************************)
\* createOne once the buffer has room for the cell
createOneIn(b) ==
    [buf |-> Wr32(Wr32(Wr32(Wr32(b, TRIE1_SLOT, Trie1(b) + CELL_BYTE_LENGTH),
                            Trie1(b) \div 4 + CELL_OR, 0),
                       Trie1(b) \div 4 + CELL_AND, 0),
                  Trie1(b) \div 4 + SEGMENT_INFO, 0),
     iroot |-> Trie1(b) \div 4]

\* createOne(): returns the buffer and the root cell of the new trie
createOne(b0) ==
    createOneIn(IF Char0(b0) - Trie1(b0) < CELL_BYTE_LENGTH
                THEN growBuf(b0, CELL_BYTE_LENGTH, 0)
                ELSE b0)

\* the copy loop of storeString
RECURSIVE storeBytes(_, _, _, _)
storeBytes(b, offset, s, i) ==
    IF i > Len(s) THEN b
    ELSE storeBytes(Wr8(b, offset + i - 1, s[i]), offset, s, i + 1)

\* storeString once the buffer has room for the characters
storeStringIn(b, s) ==
    [buf |-> storeBytes(Wr32(b, CHAR1_SLOT, Char1(b) + Len(s)), Char1(b), s, 1),
     ret |-> Char1(b) - Char0(b)]

\* storeString(s): returns the buffer and the offset relative to char0
storeString(b0, s) ==
    storeStringIn(IF Len(b0) - Char1(b0) < Len(s)
                  THEN growBuf(b0, 0, Len(s))
                  ELSE b0,
                  s)

\* setExtra that keeps an extra already written
setExtra_KeepFirst(b, iboundary, v) ==
    IF Rd32(b, iboundary + BCELL_EXTRA) # 0 THEN b
    ELSE Wr32(b, iboundary + BCELL_EXTRA, v)

\* STrieRef.setExtra(iboundary, v)
setExtra(b, iboundary, v) == Wr32(b, iboundary + BCELL_EXTRA, v)

\* STrieRef.getExtra(iboundary)
getExtra(b, iboundary) == Rd32(b, iboundary + BCELL_EXTRA)

reset(b) == Wr32(Wr32(b, TRIE1_SLOT, Trie0(b)), CHAR1_SLOT, Char0(b))

optimize(b) == shrinkBuf(b)

(***************************************************************************)
(* matches, matchesLeft                                                    *)
(***************************************************************************)
\* The caller's predicate: refuses extra 7, accepts every other extra with
\* a non-zero handle.
extraHandler(l, r, ix) == IF ix = 7 THEN 0 ELSE 100 + ix

\* the result of matches or matchesLeft: the returned boolean, $l, $r and
\* $iu, and how the call ran: the iterations of its outer loop (steps), the
\* most iterations of a nested matchesLeft call (lsteps), and whether a
\* comparison loop was entered past the end of its segment (past)
NoMatch == [ret |-> FALSE, l |-> 0, r |-> 0, iu |-> 0,
            steps |-> 0, lsteps |-> 0, past |-> FALSE]

\* what the caller of matches sees: the returned boolean, $l, $r and $iu
Outcome(m) == [ret |-> m.ret, l |-> m.l, r |-> m.r, iu |-> m.iu]

\* "find first segment with a first-character match" of matches:
\* the cell found, or 0 when the OR chain ends
RECURSIVE matchesFirst(_, _, _, _)
matchesFirst(b, icell, c, char0) ==
    LET bl == char0 + Lo24(b, icell + SEGMENT_INFO) IN
    IF Rd8(b, bl) = c THEN icell
    ELSE LET inext == Rd32(b, icell + CELL_OR)
         IN  IF inext = 0 THEN 0 ELSE matchesFirst(b, inext, c, char0)

\* the do-while "all characters in segment must match" of matches
RECURSIVE matchesRest(_, _, _, _)
matchesRest(b, i, j, ar) ==
    IF Rd8(b, i) # Rd8(b, j) THEN FALSE
    ELSE IF i + 1 = ar THEN TRUE
    ELSE matchesRest(b, i + 1, j + 1, ar)

\* "find first segment with a first-character match" of matchesLeft
RECURSIVE matchesLeftFirst(_, _, _, _)
matchesLeftFirst(b, icell, c, char0) ==
    LET n == Hi8(b, icell + SEGMENT_INFO) - 1
        br == char0 + Lo24(b, icell + SEGMENT_INFO) + n
    IN  IF Rd8(b, br) = c THEN icell
        ELSE LET inext == Rd32(b, icell + CELL_OR)
             IN  IF inext = 0 THEN 0 ELSE matchesLeftFirst(b, inext, c, char0)

\* the do-while of matchesLeft with its comparison left out
matchesLeftRest_NoCompare(b, i, j, al) == TRUE

\* the do-while "all characters in segment must match" of matchesLeft
RECURSIVE matchesLeftRest(_, _, _, _)
matchesLeftRest(b, i, j, al) ==
    IF Rd8(b, i - 1) # Rd8(b, j - 1) THEN FALSE
    ELSE IF i - 1 = al THEN TRUE
    ELSE matchesLeftRest(b, i - 1, j - 1, al)

\* the outer loop of matchesLeft, entered with the cell and ar for its
\* k-th iteration
RECURSIVE matchesLeftLoop(_, _, _, _, _, _)
matchesLeftLoop(b, icell0, ar0, r, char0, k) ==
    LET ar1 == ar0 - 1
        c == Rd8(b, ar1)
        icell == matchesLeftFirst(b, icell0, c, char0)
    IN
    IF icell = 0 THEN [NoMatch EXCEPT !.steps = k]
    ELSE
    LET n == Hi8(b, icell + SEGMENT_INFO) - 1
        br == char0 + Lo24(b, icell + SEGMENT_INFO) + n
        al == ar1 - n
    IN
    IF n # 0 /\ al < 0 THEN [NoMatch EXCEPT !.steps = k]
    ELSE IF n # 0 /\ ~matchesLeftRest(b, ar1, br, al)
    THEN [NoMatch EXCEPT !.steps = k, !.past = n < 0]
    ELSE
    LET ar == IF n # 0 THEN al ELSE ar1
        inext == Rd32(b, icell + CELL_AND)
        ix == Lo24(b, inext + BCELL_EXTRA)
        isB == IsBoundaryWord(b, inext + BCELL_EXTRA)
        iu == IF ix = 1 THEN -1 ELSE extraHandler(ar, r, ix)
    IN
    IF isB /\ ix # 0 /\ iu # 0
    THEN [ret |-> TRUE, l |-> ar, r |-> r, iu |-> iu,
          steps |-> k, lsteps |-> 0, past |-> FALSE]
    ELSE
    LET icell2 == IF isB THEN Rd32(b, inext + BCELL_NEXT_AND) ELSE inext IN
    IF isB /\ icell2 = 0 THEN [NoMatch EXCEPT !.steps = k]
    ELSE IF ar = 0 THEN [NoMatch EXCEPT !.steps = k]
    ELSE matchesLeftLoop(b, icell2, ar, r, char0, k + 1)

\* matchesLeft that finds no left part
matchesLeft_None(b, iroot, i, r) == NoMatch

matchesLeft(b, iroot, i, r) == matchesLeftLoop(b, iroot, i, r, Char0(b), 1)

\* the outer loop of matches, entered with the cell and al for its k-th
\* iteration; lsteps and past are those of the iterations before
RECURSIVE matchesLoop(_, _, _, _, _, _, _, _, _)
matchesLoop(b, aR, i, icell0, al0, char0, k, lsteps, past) ==
    LET c == Rd8(b, al0)
        al1 == al0 + 1
        icell == matchesFirst(b, icell0, c, char0)
    IN
    IF icell = 0
    THEN [NoMatch EXCEPT !.steps = k, !.lsteps = lsteps, !.past = past]
    ELSE
    LET bl == char0 + Lo24(b, icell + SEGMENT_INFO)
        n == Hi8(b, icell + SEGMENT_INFO) - 1
        ar == al1 + n
    IN
    IF n # 0 /\ ar > aR
    THEN [NoMatch EXCEPT !.steps = k, !.lsteps = lsteps, !.past = past]
    ELSE IF n # 0 /\ ~matchesRest(b, al1, bl + 1, ar)
    THEN [NoMatch EXCEPT !.steps = k, !.lsteps = lsteps,
                         !.past = past \/ n < 0]
    ELSE
    LET al == IF n # 0 THEN ar ELSE al1
        ib == Rd32(b, icell + CELL_AND)
        ix == Lo24(b, ib + BCELL_EXTRA)
        isB == IsBoundaryWord(b, ib + BCELL_EXTRA)
        iu == IF ix = 1 THEN -1 ELSE extraHandler(i, al, ix)
    IN
    IF isB /\ ix # 0 /\ iu # 0
    THEN [ret |-> TRUE, l |-> i, r |-> al, iu |-> iu,
          steps |-> k, lsteps |-> lsteps, past |-> past]
    ELSE
    LET ialt == Rd32(b, ib + BCELL_ALT_AND)
        left == IF isB /\ ialt # 0 THEN matchesLeft(b, ialt, i, al) ELSE NoMatch
        lsteps2 == Max(lsteps, left.steps)
        past2 == past \/ left.past
    IN
    IF left.ret
    THEN [left EXCEPT !.steps = k, !.lsteps = lsteps2, !.past = past2]
    ELSE
    LET icell2 == IF isB THEN Rd32(b, ib + BCELL_NEXT_AND) ELSE ib IN
    IF isB /\ icell2 = 0
    THEN [NoMatch EXCEPT !.steps = k, !.lsteps = lsteps2, !.past = past2]
    ELSE IF al = aR
    THEN [NoMatch EXCEPT !.steps = k, !.lsteps = lsteps2, !.past = past2]
    ELSE matchesLoop(b, aR, i, icell2, al, char0, k + 1, lsteps2, past2)

\* matches(iroot, i) with haystackLen = aR: the returned boolean and, when
\* true, the $l, $r and $iu it sets
matches(b, aR, iroot, i) ==
    Outcome(matchesLoop(b, aR, i, iroot, i, Char0(b), 1, 0, FALSE))

\* the caller's hand-off: the haystack bytes written to the window
RECURSIVE writeHaystack(_, _, _)
writeHaystack(b, h, k) ==
    IF k > Len(h) THEN b
    ELSE writeHaystack(Wr8(b, HAYSTACK_START + k - 1, h[k]), h, k + 1)

(***************************************************************************)
(* STrieRef[Symbol.iterator]                                               *)
(***************************************************************************)
\* the bytes of a segment appended to charBuf at charPtr
RECURSIVE iterCopy(_, _, _, _)
iterCopy(b, cb, i0, i1) ==
    IF i0 < i1 THEN iterCopy(b, Append(cb, Rd8(b, i0)), i0 + 1, i1) ELSE cb

\* the for (;;) loop of next(): the iterator state after the pattern is found
RECURSIVE iterLoop(_, _, _, _)
iterLoop(b, icell, cb, forks) ==
    LET idown == Rd32(b, icell + CELL_OR)
        forks1 == IF idown # 0 THEN forks \o <<idown, Len(cb)>> ELSE forks
        i0 == Char0(b) + Lo24(b, icell + SEGMENT_INFO)
        i1 == i0 + Hi8(b, icell + SEGMENT_INFO)
        cb1 == iterCopy(b, cb, i0, i1)
        inext == Rd32(b, icell + CELL_AND)
    IN  IF inext = 0
        THEN [icell |-> 0, cb |-> cb1, forks |-> forks1]
        ELSE IF Is32(b, inext + SEGMENT_INFO, 0)
        THEN [icell |-> Rd32(b, inext + CELL_AND), cb |-> cb1, forks |-> forks1]
        ELSE iterLoop(b, inext, cb1, forks1)

\* every value the iterator yields until done, in order
RECURSIVE iterAll(_, _, _, _, _)
iterAll(b, icell, cb, forks, out) ==
    IF icell = 0 /\ Len(forks) = 0 THEN out
    ELSE
    LET popped == icell = 0
        nf == Len(forks)
        charPtr == IF popped THEN forks[nf] ELSE Len(cb)
        ic == IF popped THEN forks[nf - 1] ELSE icell
        fk == IF popped THEN SubSeq(forks, 1, nf - 2) ELSE forks
        st == iterLoop(b, ic, SubSeq(cb, 1, charPtr), fk)
    IN  iterAll(b, st.icell, st.cb, st.forks, Append(out, st.cb))

\* [...trie]: the strings yielded by iterating the handle of iroot
iterate(b, iroot) == iterAll(b, iroot, <<>>, <<>>, <<>>)

\* extractString(i, n): the n bytes at char0 + i, before decoding
extractString(b, i, n) == [k \in 1..n |-> Rd8(b, Char0(b) + i + k - 1)]

(***************************************************************************)
(* serialize, unserialize                                                  *)
(***************************************************************************)
\* serialize(): the words [0, char1 + 3 >>> 2), here as their bytes
serialize(b) == SubSeq(b, 1, ((Char1(b) + 3) \div 4) * 4)

\* unserialize that does not replace a buffer the selfie does not fit in
unserialize_NoGrow(b, selfie) ==
    IF Len(selfie) = 0 THEN [buf |-> b, ret |-> FALSE]
    ELSE [buf |-> [k \in 1..Len(b) |->
                     IF k <= Len(selfie) THEN selfie[k] ELSE b[k]],
          ret |-> TRUE]

\* unserialize without the test for an image of size zero
unserialize_NoEmptyTest(b, selfie) ==
    [buf |-> [k \in 1..Len(b) |-> IF k <= Len(selfie) THEN selfie[k] ELSE b[k]],
     ret |-> TRUE]

\* unserialize(selfie) without a decoder: the buffer afterwards and the
\* returned boolean
unserialize(b, selfie) ==
    IF Len(selfie) = 0 THEN [buf |-> b, ret |-> FALSE]
    ELSE [buf |-> [k \in 1..Max(roundToPageSize(Len(selfie)), Len(b)) |->
                     IF k <= Len(selfie) THEN selfie[k]
                     ELSE IF roundToPageSize(Len(selfie)) > Len(b) THEN 0
                     ELSE b[k]],
          ret |-> TRUE]

(***************************************************************************)
(* startsWith, indexOf, lastIndexOf                                        *)
(***************************************************************************)
\* the while loop of startsWith: the returned value and the last haystack
\* position the loop has read
RECURSIVE startsWithLoop(_, _, _, _)
startsWithLoop(b, haystackLeft, needleLeft, needleRight) ==
    IF Rd8(b, haystackLeft) = Rd8(b, needleLeft)
    THEN IF needleLeft + 1 = needleRight THEN [val |-> 1, read |-> haystackLeft]
         ELSE startsWithLoop(b, haystackLeft + 1, needleLeft + 1, needleRight)
    ELSE [val |-> 0, read |-> haystackLeft]

\* startsWith without the test that the needle fits in the range
startsWith_NoFit(b, haystackLeft, haystackRight, needleLeft, needleLen) ==
    IF haystackLeft < 0 THEN [val |-> 0, read |-> -1]
    ELSE startsWithLoop(b, haystackLeft, needleLeft + Char0(b),
                        needleLeft + Char0(b) + needleLen)

\* startsWith: the returned value (read: the last haystack position read,
\* -1 when none is)
startsWith(b, haystackLeft, haystackRight, needleLeft, needleLen) ==
    IF haystackLeft < 0 \/ (haystackLeft + needleLen) > haystackRight
    THEN [val |-> 0, read |-> -1]
    ELSE LET nL == needleLeft + Char0(b)
         IN  startsWithLoop(b, haystackLeft, nL, nL + needleLen)

\* the inner while loop of indexOf and lastIndexOf: TRUE when it returns
RECURSIVE needleAt(_, _, _, _)
needleAt(b, i, j, needleRight) ==
    IF Rd8(b, i) = Rd8(b, j)
    THEN IF j + 1 = needleRight THEN TRUE
         ELSE needleAt(b, i + 1, j + 1, needleRight)
    ELSE FALSE

\* the for (;;) loop of indexOf
RECURSIVE indexOfLoop(_, _, _, _, _)
indexOfLoop(b, haystackLeft, haystackEnd, needleLeft, needleRight) ==
    IF needleAt(b, haystackLeft, needleLeft, needleRight) THEN haystackLeft
    ELSE IF haystackLeft + 1 = haystackEnd THEN -1
    ELSE indexOfLoop(b, haystackLeft + 1, haystackEnd, needleLeft, needleRight)

indexOf(b, haystackLeft, haystackEnd0, needleLeft, needleLen) ==
    LET haystackEnd == haystackEnd0 - needleLen
        nL == needleLeft + Char0(b)
    IN  IF haystackEnd < haystackLeft THEN -1
        ELSE indexOfLoop(b, haystackLeft, haystackEnd, nL, nL + needleLen)

\* the for (;;) loop of lastIndexOf
RECURSIVE lastIndexOfLoop(_, _, _, _, _)
lastIndexOfLoop(b, haystackLeft, haystackBeg, needleLeft, needleRight) ==
    IF needleAt(b, haystackLeft, needleLeft, needleRight) THEN haystackLeft
    ELSE IF haystackLeft = haystackBeg THEN -1
    ELSE lastIndexOfLoop(b, haystackLeft - 1, haystackBeg, needleLeft, needleRight)

lastIndexOf(b, haystackBeg, haystackEnd, needleLeft, needleLen) ==
    LET haystackLeft == haystackEnd - needleLen
        nL == needleLeft + Char0(b)
    IN  IF haystackLeft < haystackBeg THEN -1
        ELSE lastIndexOfLoop(b, haystackLeft, haystackBeg, nL, nL + needleLen)

(***************************************************************************)
(* The state machine                                                       *)
(***************************************************************************)
VARIABLES
    buf8,         \* the container's buffer (buf32 is a view of it)
    haystackLen,  \* the container's haystackLen
    roots,        \* the live trie handles: [iroot, size], in creation order
    pats,         \* what add was called with, in call order: the handle t,
                  \* the bytes s at offset off, the pivot p, the returned
                  \* boundary cell b and the extra x written to it (0: none)
    pend,         \* the string stored and not yet added: <<[off, s]>>
    stale,        \* the root cells of the handles made before the last reset
    snap,         \* <<[buf, roots, pats]>> as they were at the last reset
    selfie,       \* <<[img, src, roots, pats]>>: the last serialize() result
                  \* and the state it was taken from
    loaded,       \* the container holds what unserialize(selfie) wrote
    ret,          \* the last search call: [op, hL, hR, nL, nLen, val, read]
    spent         \* [life, chars, roots]: how many times reset, optimize,
                  \* serialize, unserialize and the constructor were
                  \* called, how many bytes storeString took, how many
                  \* times createOne was called

vars == <<buf8, haystackLen, roots, pats, pend, stale, snap, selfie, loaded, ret, spent>>

\* sequences over S of length lo..hi
SeqsOf(S, lo, hi) == UNION {[1..n -> S] : n \in lo..hi}

Strings == SeqsOf(Alphabet, 1, MaxLen)

Haystacks == SeqsOf(Alphabet, 1, MaxHay)

\* the extras a caller writes with setExtra
Extras == {1, 7, 9}

NoCall == [op |-> "none", hL |-> 0, hR |-> 0, nL |-> 0, nLen |-> 0,
           val |-> 0, read |-> -1]

Init ==
    /\ buf8 = NewContainer(0)
    /\ haystackLen = 0
    /\ roots = <<>>
    /\ pats = <<>>
    /\ pend = <<>>
    /\ stale = <<>>
    /\ snap = <<>>
    /\ selfie = <<>>
    /\ loaded = FALSE
    /\ ret = NoCall
    /\ spent = [life |-> 0, chars |-> 0, roots |-> 0]

CharsUsed == Char1(buf8) - Char0(buf8)

\* the trie of handle t holds a pattern with an empty right part
EmptyRight(t) == \E k \in 1..Len(pats) : pats[k].t = t /\ pats[k].p = Len(pats[k].s)

\* container.createOne()
CreateOne(maxRoots) ==
    /\ pend = <<>>
    /\ spent.roots < maxRoots
    /\ spent' = [spent EXCEPT !.roots = @ + 1]
    /\ LET r == createOne(buf8)
       IN  /\ buf8' = r.buf
           /\ roots' = Append(roots, [iroot |-> r.iroot, size |-> 0])
    /\ loaded' = FALSE
    /\ UNCHANGED <<haystackLen, pats, pend, stale, snap, selfie, ret>>

\* container.storeString(s)
StoreString(maxChars) ==
    /\ pend = <<>>
    /\ \E t \in 1..Len(roots) : ~EmptyRight(t)
    /\ \E s \in Strings :
        /\ spent.chars + Len(s) <= maxChars
        /\ spent' = [spent EXCEPT !.chars = @ + Len(s)]
        /\ LET r == storeString(buf8, s)
           IN  /\ buf8' = r.buf
               /\ pend' = <<[off |-> r.ret, s |-> s]>>
    /\ loaded' = FALSE
    /\ UNCHANGED <<haystackLen, roots, pats, stale, snap, selfie, ret>>

\* trie.add(offset, n, pivot) of the string just stored.  A pivot equal to
\* n (an empty right part) is tried on an empty trie only, and a trie that
\* took such a pattern takes no further add.
Add ==
    /\ pend # <<>>
    /\ \E t \in 1..Len(roots), p \in 0..Len(pend[1].s) :
        /\ ~EmptyRight(t)
        /\ p = Len(pend[1].s) => Is32(buf8, roots[t].iroot + SEGMENT_INFO, 0)
        /\ LET r == add(buf8, roots[t].iroot, pend[1].off, Len(pend[1].s), p)
           IN  /\ buf8' = r.buf
               /\ roots' = [roots EXCEPT ![t].size =
                               IF r.ret # 0 THEN @ + 1 ELSE @]
               /\ pats' = Append(pats, [t |-> t, s |-> pend[1].s, p |-> p,
                                        off |-> pend[1].off, b |-> r.ret,
                                        x |-> 0])
    /\ pend' = <<>>
    /\ loaded' = FALSE
    /\ UNCHANGED <<haystackLen, stale, snap, selfie, ret, spent>>

\* trie.setExtra(iboundary, v) on the boundary cell the last add returned
SetExtra(vals) ==
    /\ pend = <<>>
    /\ pats # <<>>
    /\ pats[Len(pats)].x = 0
    /\ \E v \in vals :
        /\ buf8' = setExtra(buf8, pats[Len(pats)].b, v)
        /\ pats' = [pats EXCEPT ![Len(pats)].x = v]
    /\ loaded' = FALSE
    /\ UNCHANGED <<haystackLen, roots, pend, stale, snap, selfie, ret, spent>>

(***************************************************************************)
(* One trie, filled by storeString, add and setExtra                       *)
(***************************************************************************)
\* every boundary cell is left unmarked or marked accept-always
NextTrie ==
    \/ CreateOne(1)
    \/ StoreString(MaxChars)
    \/ Add
    \/ SetExtra({1})

SpecTrie == Init /\ [][NextTrie]_vars

\* boundary cells are left unmarked or given any of the extras
NextExtra ==
    \/ CreateOne(1)
    \/ StoreString(MaxCharsX)
    \/ Add
    \/ SetExtra(Extras)

SpecExtra == Init /\ [][NextExtra]_vars

(***************************************************************************)
(* reset, optimize, serialize, unserialize, and a new container            *)
(***************************************************************************)
\* the extras written in the runs below
LifeExtras == {9}

\* container.reset(): the handles made so far are stale.  keep says whether
\* the state before the reset is remembered in snap.
Reset(keep) ==
    /\ spent.life < MaxLifeOps
    /\ spent' = [spent EXCEPT !.life = @ + 1]
    /\ pend = <<>>
    /\ roots # <<>>
    /\ buf8' = reset(buf8)
    /\ stale' = [t \in 1..Len(roots) |-> roots[t].iroot]
    /\ snap' = IF keep THEN <<[buf |-> buf8, roots |-> roots, pats |-> pats]>>
               ELSE <<>>
    /\ roots' = <<>>
    /\ pats' = <<>>
    /\ loaded' = FALSE
    /\ UNCHANGED <<haystackLen, pend, selfie, ret>>

\* container.optimize()
Optimize ==
    /\ spent.life < MaxLifeOps
    /\ spent' = [spent EXCEPT !.life = @ + 1]
    /\ pend = <<>>
    /\ buf8' = optimize(buf8)
    /\ loaded' = FALSE
    /\ UNCHANGED <<haystackLen, roots, pats, pend, stale, snap, selfie, ret>>

\* selfie = container.serialize()
Serialize ==
    /\ spent.life < MaxLifeOps
    /\ spent' = [spent EXCEPT !.life = @ + 1]
    /\ pend = <<>>
    /\ roots # <<>>
    /\ selfie' = <<[img |-> serialize(buf8), src |-> buf8,
                    roots |-> roots, pats |-> pats]>>
    /\ UNCHANGED <<buf8, haystackLen, roots, pats, pend, stale, snap, loaded, ret>>

\* container.unserialize(selfie): the handles compiled with the selfie are
\* the live ones again
Unserialize ==
    /\ spent.life < MaxLifeOps
    /\ spent' = [spent EXCEPT !.life = @ + 1]
    /\ pend = <<>>
    /\ selfie # <<>>
    /\ LET r == unserialize(buf8, selfie[1].img)
       IN  /\ buf8' = r.buf
           /\ loaded' = r.ret
    /\ roots' = selfie[1].roots
    /\ pats' = selfie[1].pats
    /\ stale' = <<>>
    /\ snap' = <<>>
    /\ UNCHANGED <<haystackLen, pend, selfie, ret>>

\* container.unserialize([]): an image of size zero
UnserializeEmpty ==
    /\ spent.life < MaxLifeOps
    /\ spent' = [spent EXCEPT !.life = @ + 1]
    /\ pend = <<>>
    /\ LET r == unserialize(buf8, <<>>)
       IN  /\ buf8' = r.buf
           /\ loaded' = r.ret
    /\ ret' = [NoCall EXCEPT !.op = "unserialize"]
    /\ UNCHANGED <<haystackLen, roots, pats, pend, stale, snap, selfie>>

\* the byteLength the program gives to a new container: none, or the one
\* an earlier optimize() returned for a buffer of six pages
ConstructSizes == {0, PAGE_SIZE * 6}

\* the program goes on with a new container:
\* new BidiTrieContainer({ byteLength })
ConstructWith(byteLength) ==
    /\ spent.life < MaxLifeOps
    /\ spent' = [spent EXCEPT !.life = @ + 1]
    /\ roots # <<>>
    /\ ret' = [NoCall EXCEPT !.op = "new", !.nLen = byteLength]
    /\ buf8' = NewContainer(byteLength)
    /\ roots' = <<>>
    /\ pats' = <<>>
    /\ pend' = <<>>
    /\ stale' = <<>>
    /\ snap' = <<>>
    /\ loaded' = FALSE
    /\ UNCHANGED <<haystackLen, selfie>>

Construct(sizes) == \E byteLength \in sizes : ConstructWith(byteLength)

\* every operation that moves the regions of the buffer
NextLife ==
    \/ CreateOne(MaxRoots)
    \/ StoreString(MaxCharsL)
    \/ Add
    \/ SetExtra(LifeExtras)
    \/ Reset(FALSE)
    \/ Optimize
    \/ Serialize
    \/ Unserialize
    \/ Construct(ConstructSizes)

SpecLife == Init /\ [][NextLife]_vars

\* two tries in one container, filled in any interleaving
NextPair ==
    \/ CreateOne(MaxRoots)
    \/ StoreString(MaxCharsP)
    \/ Add
    \/ SetExtra(LifeExtras)

SpecPair == Init /\ [][NextPair]_vars

\* one trie, repacked by optimize() at any time while it is filled
NextPack ==
    \/ CreateOne(1)
    \/ StoreString(MaxCharsP)
    \/ Add
    \/ SetExtra(LifeExtras)
    \/ Optimize

SpecPack == Init /\ [][NextPack]_vars

\* every byteLength of NewSizes given to the constructor
NewSizes == 0..(PAGE_SIZE * MaxNewPages)

\* containers are made one after the other, each used for some tries
NextNew ==
    \/ CreateOne(MaxRoots)
    \/ Construct(NewSizes)

SpecNew == Init /\ [][NextNew]_vars

\* a container is filled, serialized and loaded with that image or with an
\* empty one
NextLoad ==
    \/ CreateOne(1)
    \/ StoreString(MaxCharsL)
    \/ Add
    \/ SetExtra(LifeExtras)
    \/ Serialize
    \/ Unserialize
    \/ UnserializeEmpty

SpecLoad == Init /\ [][NextLoad]_vars

\* a container is filled, reset and filled again
NextReset ==
    \/ CreateOne(MaxRoots)
    \/ StoreString(MaxCharsL)
    \/ Add
    \/ SetExtra(LifeExtras)
    \/ Reset(TRUE)

SpecReset == Init /\ [][NextReset]_vars

(***************************************************************************)
(* The search primitives over a haystack and stored needles                *)
(***************************************************************************)
\* storeString(s) of a needle
StoreNeedle ==
    /\ \E s \in Strings :
        /\ spent.chars + Len(s) <= MaxNeedle
        /\ spent' = [spent EXCEPT !.chars = @ + Len(s)]
        /\ buf8' = storeString(buf8, s).buf
    /\ ret' = NoCall
    /\ UNCHANGED <<haystackLen, roots, pats, pend, stale, snap, selfie, loaded>>

\* the caller writes a haystack to the window and sets haystackLen
SetHaystack ==
    /\ haystackLen = 0
    /\ \E h \in Haystacks :
        /\ buf8' = writeHaystack(buf8, h, 1)
        /\ haystackLen' = Len(h)
    /\ ret' = NoCall
    /\ UNCHANGED <<roots, pats, pend, stale, snap, selfie, loaded, spent>>

\* the ranges a search call is made with: 0 <= hL <= hR within the window,
\* the needle within the stored bytes
SearchArgs(minLen) ==
    {a \in [hL : 0..MaxHay, hR : 0..MaxHay, nL : 0..MaxNeedle, nLen : minLen..MaxNeedle] :
        a.hL <= a.hR /\ a.nL + a.nLen <= CharsUsed /\ a.nL < CharsUsed}

Called(op, a, val, read) ==
    [op |-> op, hL |-> a.hL, hR |-> a.hR, nL |-> a.nL, nLen |-> a.nLen,
     val |-> val, read |-> read]

IndexOf ==
    /\ ret = NoCall
    /\ \E a \in SearchArgs(1) :
        ret' = Called("indexOf", a, indexOf(buf8, a.hL, a.hR, a.nL, a.nLen), -1)
    /\ UNCHANGED <<buf8, haystackLen, roots, pats, pend, stale, snap, selfie, loaded, spent>>

LastIndexOf ==
    /\ ret = NoCall
    /\ \E a \in SearchArgs(1) :
        ret' = Called("lastIndexOf", a, lastIndexOf(buf8, a.hL, a.hR, a.nL, a.nLen), -1)
    /\ UNCHANGED <<buf8, haystackLen, roots, pats, pend, stale, snap, selfie, loaded, spent>>

StartsWith ==
    /\ ret = NoCall
    /\ \E a \in SearchArgs(0) :
        LET r == startsWith(buf8, a.hL, a.hR, a.nL, a.nLen)
        IN  ret' = Called("startsWith", a, r.val, r.read)
    /\ UNCHANGED <<buf8, haystackLen, roots, pats, pend, stale, snap, selfie, loaded, spent>>

NextSearch ==
    \/ StoreNeedle
    \/ SetHaystack
    \/ IndexOf
    \/ LastIndexOf
    \/ StartsWith

SpecSearch == Init /\ [][NextSearch]_vars

(***************************************************************************)
(* What the claims speak of                                                *)
(***************************************************************************)
LeftOf(pt) == SubSeq(pt.s, 1, pt.p)

RightOf(pt) == SubSeq(pt.s, pt.p + 1, Len(pt.s))

\* the pattern, its pivot put at position i of haystack h, is found in h
Occurs(pt, h, i) ==
    /\ i - pt.p >= 0
    /\ i + (Len(pt.s) - pt.p) <= Len(h)
    /\ SubSeq(h, i - pt.p + 1, i) = LeftOf(pt)
    /\ SubSeq(h, i + 1, i + Len(pt.s) - pt.p) = RightOf(pt)

\* matches(i) through handle t once the caller has written haystack h
MatchAt(b, t, h, i) == matches(writeHaystack(b, h, 1), Len(h), roots[t].iroot, i)

AllAcceptAlways == \A k \in 1..Len(pats) : pats[k].x = 1

AllRightNonEmpty == \A k \in 1..Len(pats) : pats[k].p < Len(pats[k].s)

SomeOccurs(t, h, i) == \E k \in 1..Len(pats) : pats[k].t = t /\ Occurs(pats[k], h, i)

Count(q, v) == Cardinality({k \in 1..Len(q) : q[k] = v})

\* the right parts of the patterns added through handle t, in order
RECURSIVE RightsOf(_, _)
RightsOf(t, k) ==
    IF k = 0 THEN <<>>
    ELSE IF pats[k].t = t THEN Append(RightsOf(t, k - 1), RightOf(pats[k]))
    ELSE RightsOf(t, k - 1)

\* C3: iterating a trie yields the inserted right parts, as a multiset
C3_RoundTrip ==
    pend = <<>> =>
        \A t \in 1..Len(roots) :
            LET out == iterate(buf8, roots[t].iroot)
                ins == RightsOf(t, Len(pats))
            IN  \A v \in {out[k] : k \in 1..Len(out)} \cup {ins[k] : k \in 1..Len(ins)} :
                    Count(out, v) = Count(ins, v)

\* C7 as stated: the same text and pivot added twice, annotated 7 and 9 in
\* either order: a haystack holding the text at the pivot matches, $iu
\* being the handle of 9
C7_Original ==
    (/\ Len(pats) = 2 /\ pend = <<>>
     /\ pats[1].s = pats[2].s /\ pats[1].p = pats[2].p
     /\ {pats[1].x, pats[2].x} = {7, 9})
    => \A h \in Haystacks : \A i \in 0..Len(h) - 1 :
          Occurs(pats[1], h, i) =>
              LET m == MatchAt(buf8, 1, h, i)
              IN  m.ret /\ m.iu = extraHandler(m.l, m.r, 9)

\* C7 amended: the same when 9 is the extra written last (and the pivot is
\* below the length of the text)
C7_LastExtraDecides ==
    (/\ Len(pats) = 2 /\ pend = <<>>
     /\ pats[1].s = pats[2].s /\ pats[1].p = pats[2].p
     /\ pats[1].p < Len(pats[1].s)
     /\ pats[1].x = 7 /\ pats[2].x = 9)
    => \A h \in Haystacks : \A i \in 0..Len(h) - 1 :
          Occurs(pats[1], h, i) =>
              LET m == MatchAt(buf8, 1, h, i)
              IN  m.ret /\ m.iu = extraHandler(m.l, m.r, 9)

\* the text added twice with a left part, 7 then 9, and a haystack holding it
C7_Witness ==
    /\ Len(pats) = 2 /\ pend = <<>>
    /\ pats[1].s = pats[2].s /\ pats[1].p = pats[2].p
    /\ pats[1].p > 0 /\ pats[1].p < Len(pats[1].s)
    /\ pats[1].x = 7 /\ pats[2].x = 9
    /\ \E h \in Haystacks : \E i \in 0..Len(h) - 1 :
          Occurs(pats[1], h, i) /\ MatchAt(buf8, 1, h, i).iu = extraHandler(0, 0, 9)

\* matches(i) with haystackLen = aR over a window holding w (the bytes of w
\* from aR on are stale)
MatchIn(b, t, w, aR, i) == matches(writeHaystack(b, w, 1), aR, roots[t].iroot, i)

\* C10: for 0 <= i <= haystackLen, a match lies within the valid haystack
C10_SpanInHaystack ==
    \A t \in 1..Len(roots) : \A w \in Haystacks : \A aR \in 0..Len(w) :
        \A i \in 0..aR :
            LET m == MatchIn(buf8, t, w, aR, i)
            IN  m.ret => (0 <= m.l /\ m.l <= i /\ i < m.r /\ m.r <= aR)

\* the nLen bytes at p equal the needle bytes at char0 + nL
NeedleIsAt(b, p, nL, nLen) ==
    \A k \in 0..nLen - 1 : Rd8(b, p + k) = Rd8(b, Char0(b) + nL + k)

\* the positions hL <= p <= hR - nLen where the needle is
Hits(b, r) == {p \in r.hL..(r.hR - r.nLen) : NeedleIsAt(b, p, r.nL, r.nLen)}

\* C8: indexOf returns the smallest position of [hL, hR - nLen] where the
\* needle is, -1 when there is none
C8_IndexOfLeftmost ==
    ret.op = "indexOf" =>
        IF Hits(buf8, ret) = {} THEN ret.val = -1
        ELSE ret.val \in Hits(buf8, ret)
                /\ \A p \in Hits(buf8, ret) : ret.val <= p

\* C9 as stated: startsWith is 1 exactly when the needle fits in [hL, hR)
\* and its bytes are at hL, for every nLen >= 0, and reads nothing at or
\* after hL + nLen
C9_Original ==
    ret.op = "startsWith" =>
        /\ ret.val = IF /\ ret.hL >= 0 /\ ret.hL + ret.nLen <= ret.hR
                        /\ NeedleIsAt(buf8, ret.hL, ret.nL, ret.nLen)
                     THEN 1 ELSE 0
        /\ ret.read < ret.hL + ret.nLen

\* C9 amended: the same for every nLen >= 1
C9_StartsWith ==
    (ret.op = "startsWith" /\ ret.nLen >= 1) =>
        /\ ret.val = IF /\ ret.hL >= 0 /\ ret.hL + ret.nLen <= ret.hR
                        /\ NeedleIsAt(buf8, ret.hL, ret.nL, ret.nLen)
                     THEN 1 ELSE 0
        /\ ret.read < ret.hL + ret.nLen

\* a needle of two bytes found at a position other than 0, the comparison
\* having run to its last byte
C9_Witness ==
    /\ ret.op = "startsWith" /\ ret.nLen = 2 /\ ret.hL > 0
    /\ ret.val = 1 /\ ret.read = ret.hL + 1

\* matches(i) through the handle of root cell iroot on buffer b
MatchRoot(b, iroot, h, i) == matches(writeHaystack(b, h, 1), Len(h), iroot, i)

\* C4: after unserialize(serialize(S)) the header slots and the bytes below
\* char1 are those of S, and every matches call returns what it returned in S
C4_SerializationLaw ==
    (loaded /\ selfie # <<>>) =>
        /\ Trie0(buf8) = Trie0(selfie[1].src)
        /\ Trie1(buf8) = Trie1(selfie[1].src)
        /\ Char0(buf8) = Char0(selfie[1].src)
        /\ Char1(buf8) = Char1(selfie[1].src)
        /\ Char1(selfie[1].src) <= Len(buf8)
        /\ \A k \in 1..Char1(selfie[1].src) : buf8[k] = selfie[1].src[k]
        /\ \A t \in 1..Len(roots) : \A h \in Haystacks : \A i \in 0..Len(h) - 1 :
              MatchRoot(buf8, roots[t].iroot, h, i)
                  = MatchRoot(selfie[1].src, roots[t].iroot, h, i)

\* a selfie loaded into a container whose buffer is not the size of the one
\* it was taken from, and a haystack that matches
C4_Witness ==
    /\ loaded /\ selfie # <<>>
    /\ Len(buf8) # Len(selfie[1].src)
    /\ \E h \in Haystacks : \E i \in 0..Len(h) - 1 :
          MatchRoot(buf8, roots[1].iroot, h, i).ret

\* after reset() and before any add, no handle matches anything: neither a
\* handle made before the reset nor one made after it
NoMatchAfterReset ==
    (stale # <<>> /\ pats = <<>> /\ pend = <<>>) =>
        \A iroot \in {stale[k] : k \in 1..Len(stale)}
                        \cup {roots[t].iroot : t \in 1..Len(roots)} :
            \A h \in Haystacks : \A i \in 0..Len(h) - 1 :
                ~MatchRoot(buf8, iroot, h, i).ret

\* once the patterns of before the reset are added again, with the same
\* extras, every matches call returns what it returned before the reset
SameAfterReinsert ==
    (/\ snap # <<>> /\ pend = <<>> /\ pats # <<>>
     /\ Len(roots) = Len(snap[1].roots)
     /\ pats = snap[1].pats)
    => \A t \in 1..Len(roots) : \A h \in Haystacks : \A i \in 0..Len(h) - 1 :
          MatchRoot(buf8, roots[t].iroot, h, i)
              = MatchRoot(snap[1].buf, snap[1].roots[t].iroot, h, i)

\* C5: reset() leaves a container that holds no patterns, and adding the
\* same patterns again restores every matches result
C5_Reset == NoMatchAfterReset /\ SameAfterReinsert

C11_EmptyImage ==
    [][/\ UnserializeEmpty => (buf8' = buf8 /\ ~loaded')
       /\ Unserialize => loaded']_vars

\* an empty image was given to a container that holds a marked pattern in
\* a buffer that add has grown
C11_Witness ==
    /\ ret.op = "unserialize" /\ ~loaded
    /\ pats # <<>> /\ pats[1].x # 0
    /\ Len(buf8) > PAGE_SIZE * 4
    /\ \E h \in Haystacks : \E i \in 0..Len(h) - 1 :
          MatchRoot(buf8, roots[1].iroot, h, i).ret

\* the layout of a buffer of length L with no cell and no character, the
\* character region starting at c0
NewLayout(b, L, c0) ==
    /\ Len(b) = L
    /\ Trie0(b) = TRIE0_START /\ Trie1(b) = TRIE0_START
    /\ Char0(b) = c0 /\ Char1(b) = c0

\* C12 as stated: a container built with byteLength = B and no char0 has
\* L = max(B rounded up to a page, 4 pages) bytes, trie0 = trie1 =
\* TRIE0_START and char0 = char1 = L / 2
C12_Original ==
    [][\A B \in NewSizes :
          ConstructWith(B) =>
              NewLayout(buf8', Max(roundToPageSize(B), PAGE_SIZE * 4),
                        Max(roundToPageSize(B), PAGE_SIZE * 4) \div 2)]_vars

\* C12 amended: the same with char0 = char1 = 2 pages, whatever B is
C12_Defaults ==
    [][\A B \in NewSizes :
          ConstructWith(B) =>
              NewLayout(buf8', Max(roundToPageSize(B), PAGE_SIZE * 4),
                        PAGE_SIZE * 2)]_vars

\* a container just built with a byteLength above four pages that is not a
\* multiple of the page size
C12_Witness ==
    /\ ret.op = "new" /\ roots = <<>>
    /\ ret.nLen > PAGE_SIZE * 4 /\ ret.nLen % PAGE_SIZE # 0
    /\ Len(buf8) = roundToPageSize(ret.nLen)
    /\ Char0(buf8) = PAGE_SIZE * 2

\* the step is an add through handle t, or a setExtra on a boundary cell
\* that an add through handle t returned
Targets(t) ==
    \/ Len(pats') > Len(pats) /\ pats'[Len(pats')].t = t
    \/ Len(pats') = Len(pats) /\ pats' # pats /\ pats[Len(pats)].t = t

\* what handle t shows is the same on buffers b and c: every matches
\* result, and the strings its iteration yields
SameTrie(t, b, c) ==
    /\ \A h \in Haystacks : \A i \in 0..Len(h) - 1 :
          MatchRoot(b, roots[t].iroot, h, i) = MatchRoot(c, roots[t].iroot, h, i)
    /\ iterate(b, roots[t].iroot) = iterate(c, roots[t].iroot)

\* C13: a createOne, storeString, add or setExtra step leaves every trie
\* that it does not target as it was, seen through its handle: the same
\* matches results and the same iteration
C13_Independent ==
    [][\A t \in 1..Len(roots) : ~Targets(t) => SameTrie(t, buf8, buf8')]_vars

\* two tries: the second one holds a marked pattern that matches, added
\* first, and adds through the first handle have since moved the character
\* region twice
C13_Witness ==
    /\ Len(roots) = 2 /\ Len(pats) >= 2 /\ pend = <<>>
    /\ pats[1].t = 2 /\ pats[1].x # 0
    /\ pats[Len(pats)].t = 1
    /\ Char0(buf8) > PAGE_SIZE * 5
    /\ \E h \in Haystacks : \E i \in 0..Len(h) - 1 :
          MatchRoot(buf8, roots[2].iroot, h, i).ret

\* pattern k occurs at position i of h and its boundary cell is accepted:
\* its extra is 1, or is not 0 and the handler returns a handle for it
Accepted(k, h, i) ==
    /\ Occurs(pats[k], h, i)
    /\ getExtra(buf8, pats[k].b) # 0
    /\ \/ getExtra(buf8, pats[k].b) = 1
       \/ extraHandler(i - pats[k].p, i + Len(pats[k].s) - pats[k].p,
                       getExtra(buf8, pats[k].b)) # 0

\* pattern k comes before pattern j on the walk: a shorter right part, or
\* the same right part and a shorter left part (none at all coming first)
Before(k, j) ==
    \/ Len(RightOf(pats[k])) < Len(RightOf(pats[j]))
    \/ /\ Len(RightOf(pats[k])) = Len(RightOf(pats[j]))
       /\ Len(LeftOf(pats[k])) <= Len(LeftOf(pats[j]))

\* the accepted patterns that come before every other accepted one
Winners(h, i) ==
    {k \in 1..Len(pats) :
        /\ Accepted(k, h, i)
        /\ \A j \in 1..Len(pats) : Accepted(j, h, i) => Before(k, j)}

\* the result m of matches(i) is the span of a winner, if there is one
Reports(m, w, i) ==
    IF w = {} THEN ~m.ret
    ELSE \A k \in w : /\ m.ret
                      /\ m.l = i - Len(LeftOf(pats[k]))
                      /\ m.r = i + Len(RightOf(pats[k]))

ReportsWinner(h, i) == Reports(MatchAt(buf8, 1, h, i), Winners(h, i), i)

Cells(b) ==
    {Trie0(b) \div 4 + 3 * k :
        k \in 0..((Trie1(b) - Trie0(b)) \div CELL_BYTE_LENGTH - 1)}

\* the link words that are not 0: AND and OR of a segment cell, NEXT_AND
\* and ALT_AND of a boundary cell
Links(b) == {l \in Cells(b) \X {CELL_AND, CELL_OR} : Rd32(b, l[1] + l[2]) # 0}

\* the cells that the links of the cells of S point to
Children(b, S) == {Rd32(b, l[1] + l[2]) : l \in {m \in Links(b) : m[1] \in S}}

\* the cells reached from the cells of S
RECURSIVE Reached(_, _)
Reached(b, S) ==
    IF Children(b, S) \subseteq S THEN S ELSE Reached(b, S \cup Children(b, S))

RootCells == {roots[t].iroot : t \in 1..Len(roots)}

\* C15: the cells form a forest: every link points to an allocated cell,
\* a root cell is the target of no link, every other cell is the target of
\* exactly one link, and every cell is reached from a root cell
C15_TreeShape ==
    AllRightNonEmpty =>
        /\ \A l \in Links(buf8) : Rd32(buf8, l[1] + l[2]) \in Cells(buf8)
        /\ \A c \in Cells(buf8) :
              Cardinality({l \in Links(buf8) : Rd32(buf8, l[1] + l[2]) = c})
                  = IF c \in RootCells THEN 0 ELSE 1
        /\ Reached(buf8, RootCells) = Cells(buf8)

\* a trie of eight cells or more with left parts, where a cell allocated
\* later was put above a cell allocated earlier
C15_Witness ==
    /\ AllRightNonEmpty /\ pend = <<>>
    /\ Cardinality(Cells(buf8)) >= 8
    /\ \E k \in 1..Len(pats) : pats[k].p > 0
    /\ \E l \in Links(buf8) : Rd32(buf8, l[1] + l[2]) < l[1]

\* the root cells of the left tries: the ALT_AND of the boundary cells
LeftRoots(b) ==
    {Rd32(b, c + BCELL_ALT_AND) :
        c \in {d \in Cells(b) : /\ IsBoundaryWord(b, d + BCELL_EXTRA)
                                /\ Rd32(b, d + BCELL_ALT_AND) # 0}}

\* the cells of the left tries
LeftCells(b) == Reached(b, LeftRoots(b))

\* C16: every segment cell of a left trie has a non-zero AND, so the left
\* walk never finds AND = 0 at a segment cell it has matched (the branch
\* "we should never reach here" is not taken)
C16_LeftCellsLinked ==
    AllRightNonEmpty =>
        \A c \in LeftCells(buf8) :
            ~IsBoundaryWord(buf8, c + SEGMENT_INFO)
                => Rd32(buf8, c + CELL_AND) # 0

\* a left trie where the walk of an add matched a whole segment cell and
\* went on with needle bytes left: a boundary cell between two segments
C16_Witness ==
    /\ AllRightNonEmpty /\ pend = <<>>
    /\ \E c \in LeftCells(buf8) :
          /\ ~IsBoundaryWord(buf8, c + SEGMENT_INFO)
          /\ IsBoundaryWord(buf8, Rd32(buf8, c + CELL_AND) + BCELL_EXTRA)
          /\ Rd32(buf8, Rd32(buf8, c + CELL_AND) + BCELL_NEXT_AND) # 0

\* the bytes of the CHAR0 and CHAR1 slots
CharSlotBytes == (4 * CHAR0_SLOT)..(4 * CHAR1_SLOT + 3)

\* buffer c is buffer b repacked: the character region right after the
\* headroom of the cells, the slack after it, and nothing else changed
Repacked(b, c) ==
    /\ Char0(c) = Trie1(c) + MIN_FREE_CELL_BYTE_LENGTH
    /\ Len(c) = roundToPageSize(Char1(c) + SHRINK_SLACK)
    /\ Trie0(c) = Trie0(b) /\ Trie1(c) = Trie1(b)
    /\ Char1(c) - Char0(c) = Char1(b) - Char0(b)
    /\ \A k \in (0..Trie1(b) - 1) \ CharSlotBytes : Rd8(c, k) = Rd8(b, k)
    /\ \A k \in 0..(Char1(b) - Char0(b) - 1) :
          Rd8(c, Char0(c) + k) = Rd8(b, Char0(b) + k)
    /\ \A t \in 1..Len(roots) : SameTrie(t, b, c)
    /\ \A k \in 1..Len(pats) :
          extractString(c, pats[k].off, Len(pats[k].s))
              = extractString(b, pats[k].off, Len(pats[k].s))

\* every marked pattern with a right part matches its own bytes
MatchesOwn ==
    \A k \in 1..Len(pats) :
        (pats[k].x # 0 /\ pats[k].p < Len(pats[k].s))
            => MatchAt(buf8, pats[k].t, pats[k].s, pats[k].p).ret

FirstOf(k, new) ==
    /\ pats[k].t = new.t /\ pats[k].s = new.s /\ pats[k].p = new.p
    /\ \A j \in 1..(k - 1) :
          ~(pats[j].t = new.t /\ pats[j].s = new.s /\ pats[j].p = new.p)

\* the boundary cells whose left trie holds cell c
RightBoundaries(b, c) ==
    {d \in Cells(b) : /\ IsBoundaryWord(b, d + BCELL_EXTRA)
                      /\ Rd32(b, d + BCELL_ALT_AND) # 0
                      /\ c \in Reached(b, {Rd32(b, d + BCELL_ALT_AND)})}

\* the boundary cell an add of a pattern present in b returns, c being the
\* one its first add returned
Returned(b, c, pivot) ==
    IF pivot > 0 /\ \E d \in RightBoundaries(b, c) : getExtra(b, d) = 1
    THEN CHOOSE d \in RightBoundaries(b, c) : getExtra(b, d) = 1
    ELSE c

MatchRun(b, t, h, i) ==
    matchesLoop(writeHaystack(b, h, 1), Len(h), i, roots[t].iroot, i,
                Char0(b), 1, 0, FALSE)

\* C19: matches(i) returns after at most haystackLen - i iterations of its
\* outer loop, each nested matchesLeft after at most i iterations (one, when
\* i = 0), and no comparison loop runs past the end of its segment
C19_Terminates ==
    \A t \in 1..Len(roots) : \A h \in Haystacks : \A i \in 0..Len(h) - 1 :
        /\ MatchRun(buf8, t, h, i).steps <= Len(h) - i
        /\ MatchRun(buf8, t, h, i).lsteps <= Max(i, 1)
        /\ ~MatchRun(buf8, t, h, i).past

====
